---------------------------- MODULE Spec2Model ----------------------------
(***************************************************************************)
(* A model of gpustats/sampler.py: the two categorical samplers            *)
(* sample_discrete and sample_discrete_old, the launch geometry each one   *)
(* computes, the adaptive search of _tune_sfm, and the accelerator buffers *)
(* each call acquires and frees.                                           *)
(*                                                                         *)
(* One call is a sequence of steps; pc is the position in the function     *)
(* body.  The device description `info` (gpustats.util.info) is read-only. *)
(* Every pycuda operation that can raise (to_gpu, gpu_empty, the kernel    *)
(* launch) either succeeds or raises, and a raise leaves the function at   *)
(* once: the functions hold no try/finally and no except clause.           *)
(*                                                                         *)
(* Calls with pad=True first go through util.pad_data_mult16, which is not *)
(* part of sampler.py; the modelled calls are those with the default       *)
(* pad=False, for which densities is in_densities (line 108).              *)
(***************************************************************************)
EXTENDS Integers, Sequences, FiniteSets

(***************************************************************************)
(* Bounds of the model.                                                    *)
(***************************************************************************)
MaxN == 17
MaxK == 4
WideK == 257
YScan == 40

\* Shapes of the densities argument: every n x k matrix shape within the
\* bounds (0 included: numpy admits empty axes), one wide matrix shape per
\* row count, and shapes that are not two-dimensional.
MatrixShapes == {<<a, b>> : a \in 0..MaxN, b \in (0..MaxK) \cup {WideK}}
OtherShapes == {<<3>>, <<2, 2, 2>>}
Shapes == MatrixShapes \cup OtherShapes

\* Where the densities argument lives: a host ndarray, a C-contiguous
\* GPUArray, or an F-contiguous GPUArray.
Residences == {"host", "gpu_c", "gpu_f"}

\* Device descriptions (gpustats.util.info).  Two are those of actual CUDA
\* devices, of compute capability 1.x and 2.x.  The others combine limits
\* below and above every threshold the planners compare against.
ActualDevices ==
    { [max_block_threads |-> 512, shared_mem |-> 16384, max_registers |-> 8192,
       compute_cap |-> 1],
      [max_block_threads |-> 1024, shared_mem |-> 49152, max_registers |-> 32768,
       compute_cap |-> 2] }
ThreadLimits == {24, 64, 512, 1024}
SharedMemLimits == {512, 2048, 16384}
RegisterLimits == {0, 8192}
ComputeCaps == {1, 2}
OtherDevices == [max_block_threads : ThreadLimits, shared_mem : SharedMemLimits,
                 max_registers : RegisterLimits, compute_cap : ComputeCaps]

\* cu_func.num_regs of the compiled kernel.
KernelRegs == {0, 64}

VARIABLES
    info,             \* the device description, read-only
    pc,               \* position in the running call, "idle" between calls
    fn,               \* the function being run
    shape,            \* densities.shape
    residence,        \* where densities lives
    return_gpuarray,  \* the return_gpuarray argument
    func_regs,        \* cu_func.num_regs
    n, k,             \* the unpacked shape (line 37, line 110)
    outstanding,      \* device buffers this call acquired and has not freed
    acquired,         \* device buffers this call ever acquired
    launched,         \* whether cu_func was invoked by this call
    stride,           \* sample_discrete_old: the padded row length
    xdim, ydim,       \* _tune_sfm: the block dimensions under search
    evaluated,        \* _tune_sfm: the ydim values sfm_config_ok was called with
    block_design, grid_design, shared_mem,   \* the launch geometry
    outcome,          \* how the call ended
    result            \* what the call returned

vars == <<info, pc, fn, shape, residence, return_gpuarray, func_regs, n, k,
          outstanding, acquired, launched, stride, xdim, ydim, evaluated,
          block_design, grid_design, shared_mem, outcome, result>>

NoDesign == <<>>
NoResult == [len |-> 0, dtype |-> "none", where |-> "none"]

-----------------------------------------------------------------------------
(***************************************************************************)
(* The pure computations of the planners.                                  *)
(***************************************************************************)

\* lines 56-59: the x block dimension of the fixed-block variant.
XBlockDim_always32(max_block_threads) == 32
XBlockDim(max_block_threads) ==
    IF max_block_threads < 1024 THEN 16 ELSE 32

\* line 61.
YBlockDim == 16

\* The least integer not below a / d, for a >= 0 and d > 0.
Ceil(a, d) == (a + d - 1) \div d

\* lines 64 and 187: int(n/d) + 1.  n and d are integers, n >= 0 and d > 0:
\* the quotient is floored (by the integer division of Python 2, which the
\* file is written in, and by int() of the float quotient otherwise).
NBlocks_ceil(rows, d) == Ceil(rows, d) + 1
NBlocks_noslack(rows, d) == rows \div d
NBlocks(rows, d) == (rows \div d) + 1

\* lines 66-67.
FixedSharedMem(x, y) == 4 * ((x + 1) * y + 2 * y)

\* lines 131-133.
OddStride(cols) == IF cols % 2 = 0 THEN cols + 1 ELSE cols

\* lines 140-141.
OldSharedMem(x, s) == 4 * (x * s + 1 * x)

\* lines 164-166.  max_smem and max_regs are floating-point products; they
\* are kept here in tenths (8 * shared_mem is ten times shared_mem * 0.8), and
\* the comparisons against them multiply the integer side by ten.
\* int(max_block_threads * 0.5) is the floored half.
MaxSmem10(dev) == 8 * dev.shared_mem
MaxThreads(dev) == dev.max_block_threads \div 2
MaxRegs10(dev) == 9 * dev.max_registers

\* lines 171-174.
TuneXdim(dev) == IF dev.compute_cap = 1 THEN 16 ELSE 32

\* lines 177-179.
sfm_config_ok_nothreads(x, y, s, regs, max_regs10, max_smem10, max_threads) ==
    /\ 10 * (4 * (x * s + 1 * x)) < max_smem10
    /\ 10 * (regs * y * x) < max_regs10
sfm_config_ok(x, y, s, regs, max_regs10, max_smem10, max_threads) ==
    /\ 10 * (4 * (x * s + 1 * x)) < max_smem10
    /\ 10 * (regs * y * x) < max_regs10
    /\ x * y <= max_threads

\* sfm_config_ok as _tune_sfm calls it at line 182, for the running call.
ConfigOk(y) ==
    sfm_config_ok(xdim, y, stride, func_regs, MaxRegs10(info), MaxSmem10(info),
                  MaxThreads(info))

-----------------------------------------------------------------------------
Init ==
    /\ (info \in ActualDevices \/ info \in OtherDevices)
    /\ pc = "idle"
    /\ fn = "none"
    /\ shape = <<>>
    /\ residence = "host"
    /\ return_gpuarray = FALSE
    /\ func_regs = 0
    /\ n = 0 /\ k = 0
    /\ outstanding = {} /\ acquired = {}
    /\ launched = FALSE
    /\ stride = 0 /\ xdim = 0 /\ ydim = 0 /\ evaluated = {}
    /\ block_design = NoDesign /\ grid_design = NoDesign /\ shared_mem = 0
    /\ outcome = "none"
    /\ result = NoResult

\* A raise anywhere in the body: the call ends, nothing is freed on the way.
Raise(err) ==
    /\ pc' = "done"
    /\ outcome' = err

\* The state a call starts from.
Enter(f, sh, res, ret, regs) ==
    /\ fn' = f
    /\ shape' = sh
    /\ residence' = res
    /\ return_gpuarray' = ret
    /\ func_regs' = regs
    /\ launched' = FALSE
    /\ stride' = 0 /\ xdim' = 0 /\ ydim' = 0 /\ evaluated' = {}
    /\ block_design' = NoDesign /\ grid_design' = NoDesign /\ shared_mem' = 0
    /\ result' = NoResult
    /\ UNCHANGED info

\* lines 37-46 and 110-124: unpack the shape, bring densities to the device.
\* Unpacking a shape that has not exactly two entries raises ValueError.
\* A host array is copied with to_gpu, an F-contiguous GPUArray is transposed
\* into a new device array, a C-contiguous GPUArray is used as it is.
Prepare(sh, res, raises, next) ==
    IF Len(sh) # 2
    THEN /\ Raise("ValueError")
         /\ n' = 0 /\ k' = 0
         /\ outstanding' = {} /\ acquired' = {}
    ELSE /\ n' = sh[1] /\ k' = sh[2]
         /\ IF res = "gpu_c"
            THEN /\ outstanding' = {} /\ acquired' = {}
                 /\ pc' = next /\ outcome' = "none"
            ELSE IF raises
                 THEN /\ outstanding' = {} /\ acquired' = {}
                      /\ Raise("AllocationError")
                 ELSE /\ outstanding' = {"densities"} /\ acquired' = {"densities"}
                      /\ pc' = next /\ outcome' = "none"

\* to_gpu / gpu_empty of one buffer: it is acquired, or the call raises.
Allocate(buf, raises, next) ==
    IF raises
    THEN /\ Raise("AllocationError")
         /\ UNCHANGED <<outstanding, acquired>>
    ELSE /\ outstanding' = outstanding \cup {buf}
         /\ acquired' = acquired \cup {buf}
         /\ pc' = next
         /\ UNCHANGED outcome

\* The kernel launch: it runs, or it raises.
Launch(raises, next) ==
    /\ launched' = TRUE
    /\ IF raises
       THEN Raise("DeviceExecutionError")
       ELSE pc' = next /\ UNCHANGED outcome

\* lines 73-79 and 147-153: free the draws, hand back the result.
Finish(dtype) ==
    /\ pc' = "done"
    /\ outcome' = "returned"
    /\ IF return_gpuarray
       THEN /\ outstanding' = outstanding \ {"random"}
            /\ result' = [len |-> n, dtype |-> dtype, where |-> "gpu"]
       ELSE /\ outstanding' = outstanding \ {"random", "dest"}
            /\ result' = [len |-> n, dtype |-> dtype, where |-> "host"]

-----------------------------------------------------------------------------
(***************************************************************************)
(* sample_discrete, lines 16-79.                                           *)
(***************************************************************************)
SD_Begin ==
    /\ pc = "idle"
    /\ \E sh \in Shapes, res \in Residences, ret \in BOOLEAN, raises \in BOOLEAN :
           \* cu_func.num_regs is never read by sample_discrete
           /\ Enter("sample_discrete", sh, res, ret, 0)
           /\ Prepare(sh, res, raises, "sd_random")

SD_AllocRandom ==
    /\ pc = "sd_random"
    /\ \E raises \in BOOLEAN : Allocate("random", raises, "sd_dest")
    /\ UNCHANGED <<info, fn, shape, residence, return_gpuarray, func_regs, n, k,
                   launched, stride, xdim, ydim, evaluated, block_design,
                   grid_design, shared_mem, result>>

SD_AllocDest ==
    /\ pc = "sd_dest"
    /\ \E raises \in BOOLEAN : Allocate("dest", raises, "sd_plan")
    /\ UNCHANGED <<info, fn, shape, residence, return_gpuarray, func_regs, n, k,
                   launched, stride, xdim, ydim, evaluated, block_design,
                   grid_design, shared_mem, result>>

\* lines 54-67.
SD_Plan ==
    /\ pc = "sd_plan"
    /\ LET x == XBlockDim(info.max_block_threads)
           y == YBlockDim
       IN /\ block_design' = <<x, y, 1>>
          /\ grid_design' = <<NBlocks(n, y), 1>>
          /\ shared_mem' = FixedSharedMem(x, y)
    /\ pc' = "sd_launch"
    /\ UNCHANGED <<info, fn, shape, residence, return_gpuarray, func_regs, n, k,
                   outstanding, acquired, launched, stride, xdim, ydim,
                   evaluated, outcome, result>>

\* lines 69-71.
SD_Launch ==
    /\ pc = "sd_launch"
    /\ \E raises \in BOOLEAN : Launch(raises, "sd_finish")
    /\ UNCHANGED <<info, fn, shape, residence, return_gpuarray, func_regs, n, k,
                   outstanding, acquired, stride, xdim, ydim, evaluated,
                   block_design, grid_design, shared_mem, result>>

\* lines 73-79; gpu_dest was made with dtype=np.int32 (line 53).
SD_Finish ==
    /\ pc = "sd_finish"
    /\ Finish("int32")
    /\ UNCHANGED <<info, fn, shape, residence, return_gpuarray, func_regs, n, k,
                   acquired, launched, stride, xdim, ydim, evaluated,
                   block_design, grid_design, shared_mem>>

-----------------------------------------------------------------------------
(***************************************************************************)
(* sample_discrete_old, lines 83-153, and _tune_sfm, lines 155-189.        *)
(***************************************************************************)
SDO_Begin ==
    /\ pc = "idle"
    /\ \E sh \in Shapes, res \in Residences, ret \in BOOLEAN, regs \in KernelRegs,
          raises \in BOOLEAN :
           /\ Enter("sample_discrete_old", sh, res, ret, regs)
           /\ Prepare(sh, res, raises, "old_random")

SDO_AllocRandom ==
    /\ pc = "old_random"
    /\ \E raises \in BOOLEAN : Allocate("random", raises, "old_dest")
    /\ UNCHANGED <<info, fn, shape, residence, return_gpuarray, func_regs, n, k,
                   launched, stride, xdim, ydim, evaluated, block_design,
                   grid_design, shared_mem, result>>

SDO_AllocDest ==
    /\ pc = "old_dest"
    /\ \E raises \in BOOLEAN : Allocate("dest", raises, "old_tune")
    /\ UNCHANGED <<info, fn, shape, residence, return_gpuarray, func_regs, n, k,
                   launched, stride, xdim, ydim, evaluated, block_design,
                   grid_design, shared_mem, result>>

\* lines 131-138 and 160-181: the stride, then the entry of _tune_sfm.
Tune_Enter_from1 ==
    /\ pc = "old_tune"
    /\ stride' = OddStride(k)
    /\ xdim' = TuneXdim(info)
    /\ ydim' = 1
    /\ evaluated' = {}
    /\ pc' = "tune_loop"
    /\ UNCHANGED <<info, fn, shape, residence, return_gpuarray, func_regs, n, k,
                   outstanding, acquired, launched, block_design, grid_design,
                   shared_mem, outcome, result>>
Tune_Enter ==
    /\ pc = "old_tune"
    /\ stride' = OddStride(k)
    /\ xdim' = TuneXdim(info)
    /\ ydim' = 2
    /\ evaluated' = {}
    /\ pc' = "tune_loop"
    /\ UNCHANGED <<info, fn, shape, residence, return_gpuarray, func_regs, n, k,
                   outstanding, acquired, launched, block_design, grid_design,
                   shared_mem, outcome, result>>

\* lines 182-183: the test holds, ydim is incremented.
Tune_Loop ==
    /\ pc = "tune_loop"
    /\ ConfigOk(ydim)
    /\ evaluated' = evaluated \cup {ydim}
    /\ ydim' = ydim + 1
    /\ UNCHANGED <<info, pc, fn, shape, residence, return_gpuarray, func_regs,
                   n, k, outstanding, acquired, launched, stride, xdim,
                   block_design, grid_design, shared_mem, outcome, result>>

\* lines 182, 185-189 and 140-141: the test fails, ydim backs off by one,
\* _tune_sfm returns and the shared-memory size is derived.
Tune_Return ==
    /\ pc = "tune_loop"
    /\ ~ConfigOk(ydim)
    /\ evaluated' = evaluated \cup {ydim}
    /\ ydim' = ydim - 1
    /\ grid_design' = <<NBlocks(n, xdim), 1>>
    /\ block_design' = <<xdim, ydim - 1, 1>>
    /\ shared_mem' = OldSharedMem(xdim, stride)
    /\ pc' = "old_launch"
    /\ UNCHANGED <<info, fn, shape, residence, return_gpuarray, func_regs, n, k,
                   outstanding, acquired, launched, stride, xdim, outcome,
                   result>>

\* lines 143-145.
SDO_Launch ==
    /\ pc = "old_launch"
    /\ \E raises \in BOOLEAN : Launch(raises, "old_finish")
    /\ UNCHANGED <<info, fn, shape, residence, return_gpuarray, func_regs, n, k,
                   outstanding, acquired, stride, xdim, ydim, evaluated,
                   block_design, grid_design, shared_mem, result>>

\* lines 147-153; gpu_dest was made with dtype=np.float32 (line 130).
SDO_Finish ==
    /\ pc = "old_finish"
    /\ Finish("float32")
    /\ UNCHANGED <<info, fn, shape, residence, return_gpuarray, func_regs, n, k,
                   acquired, launched, stride, xdim, ydim, evaluated,
                   block_design, grid_design, shared_mem>>

-----------------------------------------------------------------------------
\* The call is over and its frame is dropped.  The module keeps no state from
\* one call to the next (cu_module, line 14, is never written), so the next
\* call starts from the state the first one started from.
Return ==
    /\ pc = "done"
    /\ pc' = "idle"
    /\ fn' = "none"
    /\ shape' = <<>>
    /\ residence' = "host"
    /\ return_gpuarray' = FALSE
    /\ func_regs' = 0
    /\ n' = 0 /\ k' = 0
    /\ outstanding' = {} /\ acquired' = {}
    /\ launched' = FALSE
    /\ stride' = 0 /\ xdim' = 0 /\ ydim' = 0 /\ evaluated' = {}
    /\ block_design' = NoDesign /\ grid_design' = NoDesign /\ shared_mem' = 0
    /\ outcome' = "none"
    /\ result' = NoResult
    /\ UNCHANGED info

Next ==
    \/ SD_Begin
    \/ SD_AllocRandom
    \/ SD_AllocDest
    \/ SD_Plan
    \/ SD_Launch
    \/ SD_Finish
    \/ SDO_Begin
    \/ SDO_AllocRandom
    \/ SDO_AllocDest
    \/ Tune_Enter
    \/ Tune_Loop
    \/ Tune_Return
    \/ SDO_Launch
    \/ SDO_Finish
    \/ Return

Spec == Init /\ [][Next]_vars

\* The interpreter runs a started call to its end: a step of a running call
\* that stays possible is eventually taken.  Nothing obliges a caller to
\* start a call.
Running ==
    \/ SD_AllocRandom \/ SD_AllocDest \/ SD_Plan \/ SD_Launch \/ SD_Finish
    \/ SDO_AllocRandom \/ SDO_AllocDest \/ Tune_Enter \/ Tune_Loop
    \/ Tune_Return \/ SDO_Launch \/ SDO_Finish

FairSpec == Spec /\ WF_vars(Running)

-----------------------------------------------------------------------------
(***************************************************************************)
(* Properties.                                                             *)
(***************************************************************************)

\* The geometry of the running call has been computed.
FixedPlanned == fn = "sample_discrete" /\ block_design # NoDesign
TunePlanned == fn = "sample_discrete_old" /\ block_design # NoDesign

\* The shape is not that of a matrix with at least one row and one column.
Malformed == Len(shape) # 2 \/ shape[1] < 1 \/ shape[2] < 1

\* C1: when a call has ended, by a return or by a raise, the uniform-draws
\* buffer it acquired has been freed, and the output buffer has been freed
\* unless it is the resident result handed back to the caller.  Stated for
\* the calls on a matrix with at least one row and one column, which no
\* validation of the shape could have turned away.
C1_NoBufferOutstanding ==
    (pc = "done" /\ ~Malformed) =>
        /\ "random" \notin outstanding
        /\ "dest" \in outstanding => (outcome = "returned" /\ return_gpuarray)

\* C2: for n, k >= 1 and any device, the fixed-block geometry stays within
\* the device's thread and shared-memory limits.
C2_FixedGeometryWithinLimits ==
    (FixedPlanned /\ n >= 1 /\ k >= 1) =>
        /\ block_design[1] * block_design[2] <= info.max_block_threads
        /\ shared_mem <= info.shared_mem

\* C2, amended: the fixed-block geometry is x = 32 for a device with at least
\* 1024 threads per block and 16 otherwise, y = 16, and 4*((x+1)*y + 2*y)
\* bytes of shared memory, whatever the device's limits; it is within the
\* thread limit exactly when the device allows 256 threads per block, and
\* within the shared-memory limit exactly when the device has 2240 bytes
\* (x = 32) or 1216 bytes (x = 16).
C2_FixedGeometryIgnoresLimits ==
    (FixedPlanned /\ n >= 1 /\ k >= 1) =>
        LET big == info.max_block_threads >= 1024
        IN /\ block_design = <<IF big THEN 32 ELSE 16, 16, 1>>
           /\ shared_mem = IF big THEN 2240 ELSE 1216
           /\ (block_design[1] * block_design[2] <= info.max_block_threads)
                  <=> (info.max_block_threads >= 256)
           /\ (shared_mem <= info.shared_mem)
                  <=> (info.shared_mem >= IF big THEN 2240 ELSE 1216)

C2_Witness ==
    /\ FixedPlanned /\ n >= 1 /\ k >= 1 /\ pc = "sd_launch"
    /\ info.max_block_threads = 512 /\ info.shared_mem = 2048
    /\ block_design = <<16, 16, 1>>

\* C3: for n >= 1 and any odd stride, register count and device, the geometry
\* of _tune_sfm and the shared-memory size derived from it stay within the
\* device's thread and shared-memory limits, y = 1 included.
C3_TunedGeometryWithinLimits ==
    (TunePlanned /\ n >= 1 /\ k >= 1) =>
        /\ block_design[1] * block_design[2] <= info.max_block_threads
        /\ shared_mem <= info.shared_mem

\* C4: the y that _tune_sfm returns satisfies sfm_config_ok, and y + 1 does
\* not.
C4_LargestFeasibleY ==
    (TunePlanned /\ n >= 1 /\ k >= 1) => (ConfigOk(block_design[2]) /\ ~ConfigOk(block_design[2] + 1))

\* C5: the grid has ceil(n / y) + 1 blocks in the fixed-block variant and
\* ceil(n / x) + 1 blocks in the adaptive variant, for every n >= 1.
C5_GridIsCeilPlusOne ==
    /\ (FixedPlanned /\ n >= 1) => grid_design[1] = Ceil(n, block_design[2]) + 1
    /\ (TunePlanned /\ n >= 1) => grid_design[1] = Ceil(n, block_design[1]) + 1

\* C5, amended: the grid has floor(n / d) + 1 blocks (d is y = 16 in the
\* fixed-block variant, x in the adaptive one): the one gx with
\* (gx - 1) * d <= n < gx * d.  That is ceil(n / d) + 1 when d divides n and
\* ceil(n / d) when it does not.
GridIsFloorPlusOne(gx, d) ==
    /\ (gx - 1) * d <= n /\ n < gx * d
    /\ gx = IF n % d = 0 THEN Ceil(n, d) + 1 ELSE Ceil(n, d)
C5_GridIsFloorPlusOne ==
    /\ (FixedPlanned /\ n >= 1) => GridIsFloorPlusOne(grid_design[1], block_design[2])
    /\ (TunePlanned /\ n >= 1) => GridIsFloorPlusOne(grid_design[1], block_design[1])

C5_Witness ==
    /\ FixedPlanned /\ n = 17 /\ k >= 1 /\ grid_design = <<2, 1>>

\* C6: every row is covered: gx * blockDim.x >= n in both variants, and
\* gx * blockDim.y >= n in the fixed-block variant.
C6_EveryRowCovered ==
    /\ (FixedPlanned /\ n >= 1) =>
           /\ grid_design[1] * block_design[1] >= n
           /\ grid_design[1] * block_design[2] >= n
    /\ (TunePlanned /\ n >= 1) => grid_design[1] * block_design[1] >= n

C6_Witness ==
    /\ TunePlanned /\ n = 17 /\ k = 3 /\ block_design[1] = 16
    /\ block_design[2] > 1 /\ grid_design = <<2, 1>>

\* C7: a call with a malformed shape acquires no device buffer, launches no
\* kernel, and ends in the error that rejects the shape.
C7_MalformedRejectedEarly ==
    (pc # "idle" /\ Malformed) =>
        /\ acquired = {}
        /\ ~launched
        /\ pc = "done" => outcome = "ValueError"

\* C8: a call that returns hands back n elements of type int32, on the host
\* or resident on the device.
C8_ResultIsInt32OfLengthN ==
    (pc = "done" /\ outcome = "returned") =>
        (result.len = n /\ result.dtype = "int32")

\* C9: the search loop of _tune_sfm ends for every stride, register count and
\* device: sfm_config_ok, once false at some y, is false at every larger y,
\* it is false at some y, the loop's ydim never passes the first such y, and
\* a search that has started returns.
TestIsMonotone == \A y \in 1..YScan : ~ConfigOk(y) => ~ConfigOk(y + 1)
TestFailsBy(y) == \E z \in 2..y : ~ConfigOk(z)
C9_TuneTerminates ==
    /\ [](pc = "tune_loop" =>
             /\ TestIsMonotone
             /\ TestFailsBy(YScan)
             /\ ydim <= (MaxThreads(info) \div xdim) + 1 \/ ydim = 2)
    /\ (pc = "tune_loop") ~> (pc = "old_launch")

C9_Witness ==
    /\ TunePlanned /\ func_regs = 0 /\ info.max_registers = 8192
    /\ block_design[2] = 32 /\ Cardinality(evaluated) = 32

\* C10: the y that _tune_sfm returns is at least 1; the search never calls
\* sfm_config_ok with y = 1, and when the test fails at y = 2 the result is 1.
C10_TunedYAtLeastOne ==
    /\ pc = "tune_loop" => (ydim >= 2 /\ 1 \notin evaluated)
    /\ TunePlanned =>
           /\ ydim >= 1 /\ block_design[2] = ydim
           /\ 1 \notin evaluated /\ 2 \in evaluated
           /\ ~ConfigOk(2) => ydim = 1

C10_Witness ==
    /\ TunePlanned /\ n >= 1 /\ k >= 1
    /\ ~ConfigOk(2) /\ ~ConfigOk(1) /\ block_design[2] = 1

=============================================================================
